---------------------------- MODULE Spec2Model ----------------------------
(***************************************************************************)
(* Model of the locales format checker: the two entry points               *)
(* scripts/locales-key-format/main.js and                                  *)
(* scripts/locales-format-checker/main.js, the traversal of get-files.js   *)
(* and the key / file-name analysis of check-locales.js.                   *)
(*                                                                         *)
(* Strings are sequences of one-character strings, so that splitting,      *)
(* re-casing and comparison are computed and not assumed.  A path is the   *)
(* sequence of its components: `${dir}/${entry}` is Append(dir, entry).    *)
(***************************************************************************)
EXTENDS Naturals, Sequences, FiniteSets, TLC

\* ------------------------------------------------------------------ bounds

\* Longest argument list given to a run.
MaxArgs == 2
\* Most underscore-delimited segments of an analysed key or file-name stem.
MaxSegments == 3

\* ----------------------------------------------------------------- strings

Lower == <<"a","b","c","d","e","f","g","h","i","j","k","l","m",
           "n","o","p","q","r","s","t","u","v","w","x","y","z">>
Upper == <<"A","B","C","D","E","F","G","H","I","J","K","L","M",
           "N","O","P","Q","R","S","T","U","V","W","X","Y","Z">>

IsUpper(c) == \E i \in 1..Len(Upper) : Upper[i] = c
IsLower(c) == \E i \in 1..Len(Lower) : Lower[i] = c

\* String.prototype.toLowerCase / toUpperCase on one character.
toLowerChar(c) == IF IsUpper(c) THEN Lower[CHOOSE i \in 1..Len(Upper) : Upper[i] = c] ELSE c
toUpperChar(c) == IF IsLower(c) THEN Upper[CHOOSE i \in 1..Len(Lower) : Lower[i] = c] ELSE c

toLowerCase(s) == [i \in 1..Len(s) |-> toLowerChar(s[i])]

\* A word with its first letter upper-cased and the rest lower-cased.
capitalize(w) ==
  IF w = <<>> THEN <<>>
  ELSE <<toUpperChar(w[1])>> \o toLowerCase(Tail(w))

\* Array.prototype.join.
RECURSIVE join(_, _)
join(ws, sep) ==
  IF ws = <<>> THEN <<>>
  ELSE IF Len(ws) = 1 THEN ws[1]
  ELSE ws[1] \o sep \o join(Tail(ws), sep)

\* String.prototype.split on a one-character separator: "a__b" gives
\* <<"a", "", "b">>, and a string without the separator gives itself.
RECURSIVE splitOn(_, _, _)
splitOn(s, sep, cur) ==
  IF s = <<>> THEN <<cur>>
  ELSE IF Head(s) = sep THEN <<cur>> \o splitOn(Tail(s), sep, <<>>)
  ELSE splitOn(Tail(s), sep, Append(cur, Head(s)))

split(s, sep) == splitOn(s, sep, <<>>)

\* String.prototype.includes for a one-character needle.
includesChar(s, c) == \E i \in 1..Len(s) : s[i] = c

\* String.prototype.endsWith.
endsWith(s, suffix) ==
  /\ Len(s) >= Len(suffix)
  /\ SubSeq(s, Len(s) - Len(suffix) + 1, Len(s)) = suffix

\* ------------------------------------------- helpers/strings.js (from spec)

\* The delimiters that separate words of an identifier (spec 4.1:
\* "word-delimited by case boundaries, underscores, or hyphens").
wordDelimiters == {"_", "-"}

\* The words of an identifier: cut at every delimiter and between a
\* lower-case letter and the upper-case letter that follows it.
RECURSIVE splitWordsAcc(_, _, _)
splitWordsAcc(s, words, cur) ==
  IF s = <<>> THEN (IF cur = <<>> THEN words ELSE Append(words, cur))
  ELSE IF Head(s) \in wordDelimiters
    THEN splitWordsAcc(Tail(s), IF cur = <<>> THEN words ELSE Append(words, cur), <<>>)
  ELSE IF cur # <<>> /\ IsLower(cur[Len(cur)]) /\ IsUpper(Head(s))
    THEN splitWordsAcc(Tail(s), Append(words, cur), <<Head(s)>>)
  ELSE splitWordsAcc(Tail(s), words, Append(cur, Head(s)))

splitWords(s) == splitWordsAcc(s, <<>>, <<>>)

\* camelCase: no separators, first word lower-case, later words capitalised.
toCamelCase(s) ==
  LET ws == splitWords(s)
  IN  join([i \in 1..Len(ws) |-> IF i = 1 THEN toLowerCase(ws[i]) ELSE capitalize(ws[i])], <<>>)

\* PascalCase: no separators, every word capitalised.
toPascalCase(s) ==
  LET ws == splitWords(s)
  IN  join([i \in 1..Len(ws) |-> capitalize(ws[i])], <<>>)

\* kebab-case: lower-case words joined by hyphens.
toKebabCase(s) ==
  LET ws == splitWords(s)
  IN  join([i \in 1..Len(ws) |-> toLowerCase(ws[i])], <<"-">>)

\* --------------------------------------------------------------- constants

\* i18nextKeyExtensions; the code tests includes(`_${part}`).
i18nextKeyExtensions ==
  { <<"_","m","a","l","e">>, <<"_","f","e","m","a","l","e">>,
    <<"_","o","r","d","i","n","a","l">>, <<"_","o","n","e">>,
    <<"_","t","w","o">>, <<"_","o","t","h","e","r">>, <<"_","f","e","w">> }

keyFormat == "camelCase"
fileNameFormat == "kebab-case"
fileExtension == <<".","j","s","o","n">>

\* The value null of the code.
Null == [null |-> TRUE]

\* ------------------------------------------------------- check-locales.js

\* getCorrectFormat: the formats the two checks use; any other format is
\* the fatal default branch.
getCorrectFormat(key, format) ==
  CASE format = "camelCase"  -> toCamelCase(key)
    [] format = "kebab-case" -> toKebabCase(key)
    [] format = "PascalCase" -> toPascalCase(key)

\* processExtensions: parts[0] verbatim, then each later part either kept
\* as `_part` when it is an i18next extension or appended in PascalCase.
RECURSIVE processParts(_, _)
processParts(ret, parts) ==
  IF parts = <<>> THEN ret
  ELSE LET part == Head(parts)
       IN  IF (<<"_">> \o part) \in i18nextKeyExtensions
             THEN processParts(ret \o <<"_">> \o part, Tail(parts))
             ELSE processParts(ret \o toPascalCase(part), Tail(parts))

\* processExtensions without the PascalCase branch: every later part is
\* appended as `_part`.
processExtensions_keepAll(key) ==
  LET parts == split(key, "_")
  IN  parts[1] \o join([i \in 1..(Len(parts) - 1) |-> <<"_">> \o parts[i + 1]], <<>>)

processExtensions(key) ==
  LET parts == split(key, "_")
  IN  processParts(parts[1], Tail(parts))

\* The corrected key analyzeKey computes.
correctKeyOf(key) ==
  IF includesChar(key, "_") THEN processExtensions(key)
  ELSE getCorrectFormat(key, keyFormat)

\* analyzeKey: null when the key is correct, else the finding.
analyzeKey(key, index) ==
  LET line == index + 2
      correctKey == correctKeyOf(key)
  IN  IF correctKey = key THEN Null
      ELSE [incorrectKey |-> key, correctedKey |-> correctKey, line |-> line]

\* checkForIncorrectFileName on the whole path instead of its base name.
checkForIncorrectFileName_wholePath(filePath) ==
  LET fileName == join(filePath, <<"/">>)
      correctFileName == getCorrectFormat(fileName, fileNameFormat)
  IN  IF correctFileName = fileName THEN Null
      ELSE [incorrectFileName |-> fileName, correctedFileName |-> correctFileName]

\* checkForIncorrectFileName: the base name against its kebab-case form.
checkForIncorrectFileName(filePath) ==
  LET fileName == filePath[Len(filePath)]
      correctFileName == getCorrectFormat(fileName, fileNameFormat)
  IN  IF correctFileName = fileName THEN Null
      ELSE [incorrectFileName |-> fileName, correctedFileName |-> correctFileName]

\* ------------------------------------------------------------- file names

S_json == <<".","j","s","o","n">>
N_dot == <<".">>
N_en == <<"e","n">>
N_de == <<"d","e">>
N_zz == <<"z","z">>
N_sub == <<"s","u","b">>
N_node_modules == <<"n","o","d","e","_","m","o","d","u","l","e","s">>
N_ok_json == <<"o","k">> \o S_json
N_x_json == <<"x">> \o S_json
N_package_json == <<"p","a","c","k","a","g","e">> \o S_json
N_my_file_json == <<"m","y","-","f","i","l","e">> \o S_json
N_My_Weird_File_json ==
  <<"M","y","_","W","e","i","r","d","_","F","i","l","e">> \o S_json
N_my_weird_file_json ==
  <<"m","y","-","w","e","i","r","d","-","f","i","l","e">> \o S_json
N_modifier_json == <<"m","o","d","i","f","i","e","r">> \o S_json
N_modifier_type_json == <<"m","o","d","i","f","i","e","r","-","t","y","p","e">> \o S_json
N_modifier_select_json ==
  <<"m","o","d","i","f","i","e","r","-","s","e","l","e","c","t","-",
    "u","i","-","h","a","n","d","l","e","r">> \o S_json
N_README_md == <<"R","E","A","D","M","E",".","m","d">>
N_gitignore == <<".","g","i","t","i","g","n","o","r","e">>
N_git == <<".","g","i","t">>
N_github == <<".","g","i","t","h","u","b">>
N_gitmodules == <<".","g","i","t","m","o","d","u","l","e","s">>
N_LICENSE == <<"L","I","C","E","N","S","E">>
N_notes_txt == <<"n","o","t","e","s",".","t","x","t">>

\* constants.js of each entry point.
LOCALES_DIR == <<N_dot>>

ignoreList_keyFormat ==
  { N_README_md, N_gitignore, N_git, N_github, N_gitmodules, N_LICENSE,
    N_node_modules, N_package_json, N_modifier_type_json, N_modifier_json,
    N_modifier_select_json }

ignoreList_formatChecker ==
  { N_package_json, N_modifier_type_json, N_modifier_json, N_modifier_select_json }

\* ------------------------------------------------------------------- state

VARIABLES
  entryPoint,     \* which main.js runs: "keyFormat" or "formatChecker"
  args,           \* process.argv.slice(2)
  rootExists,     \* existsSync(LOCALES_DIR)
  tree,           \* the content of every candidate file under LOCALES_DIR
  pc,             \* the position of main
  options,        \* the options parseArgs returned
  exitCode,       \* process.exitCode (0 while unset)
  status,         \* the status the process ended with, once pc = "exited"
  keyOutput,      \* main's keyOutput: <<[path, entries]>> in insertion order
  fileNameOutput, \* main's fileNameOutput
  langs,          \* languages the running check has still to visit
  files,          \* files of the current language still to check
  events,         \* what the run has done so far, in order
  report,         \* the counts the result displays have printed, in order
  subject,        \* format checks: the key or file path under analysis
  finding,        \* format checks: the result of the analysis
  refinding       \* format checks: the result of analysing the correction

runVars == <<entryPoint, args, rootExists, tree, pc, options, exitCode, status,
             keyOutput, fileNameOutput, langs, files, events, report>>
formatVars == <<subject, finding, refinding>>
vars == <<runVars, formatVars>>

\* ------------------------------------------------------------- file system

\* Keys of the locale files of a run.
K_ok == <<"o","k">>
K_myKey == <<"m","y","K","e","y">>
K_Bad_key == <<"B","a","d","_","k","e","y">>
K_bad_one == <<"b","a","d","-","o","n","e">>

K_1 == <<"1">>

\* The content of a file: absent, text that is not JSON, or the text of a
\* flat JSON object, given by its keys in the order of the text, one a line.
Absent == [kind |-> "absent"]
Malformed == [kind |-> "malformed"]
JsonObject(keys) == [kind |-> "object", keys |-> keys]
Clean == JsonObject(<<K_ok, K_myKey>>)
Dirty == JsonObject(<<K_ok, K_Bad_key, K_bad_one>>)
\* An incorrect key followed by an integer key.
Numbered == JsonObject(<<K_Bad_key, K_1, K_bad_one>>)
\* A key written twice, followed by an incorrect key.
Repeated == JsonObject(<<K_ok, K_ok, K_Bad_key>>)

\* The candidate files, in the order readdirSync lists them, each with the
\* contents it may have.
Candidates ==
  << [path |-> <<N_dot, N_de, N_sub, N_my_file_json>>,
      contents |-> {Absent, Clean, Repeated, Malformed}],
     [path |-> <<N_dot, N_en, N_My_Weird_File_json>>,
      contents |-> {Absent, Clean, Numbered}],
     [path |-> <<N_dot, N_en, N_node_modules, N_x_json>>,
      contents |-> {Absent, Dirty}],
     [path |-> <<N_dot, N_en, N_ok_json>>,
      contents |-> {Absent, Clean, Dirty, Malformed}],
     [path |-> <<N_dot, N_en, N_package_json>>,
      contents |-> {Absent, Dirty}],
     [path |-> <<N_dot, N_node_modules, N_x_json>>,
      contents |-> {Absent, Dirty}],
     [path |-> <<N_dot, N_notes_txt>>,
      contents |-> {Absent, Malformed}] >>

CandidateIdx == 1..Len(Candidates)

\* The trees: one content for each candidate.
RECURSIVE TreesOver(_)
TreesOver(n) ==
  IF n = 0 THEN { <<>> }
  ELSE { Append(t, c) : t \in TreesOver(n - 1), c \in Candidates[n].contents }

Trees == TreesOver(Len(Candidates))

EmptyTree == [i \in CandidateIdx |-> Absent]

IsPrefix(p, q) == Len(p) <= Len(q) /\ SubSeq(q, 1, Len(p)) = p

\* The present files at or beneath a path.
Beneath(p) == { i \in CandidateIdx : tree[i] # Absent /\ IsPrefix(p, Candidates[i].path) }

\* lstatSync(p).isDirectory()
isDirectory(p) == \E i \in Beneath(p) : Len(Candidates[i].path) > Len(p)

\* readdirSync(dir): the names directly under dir, each once, in order.
RECURSIVE readdirFrom(_, _, _)
readdirFrom(dir, i, seen) ==
  IF i > Len(Candidates) THEN <<>>
  ELSE LET q == Candidates[i].path
       IN  IF i \in Beneath(dir) /\ Len(q) > Len(dir) /\ q[Len(dir) + 1] \notin seen
             THEN <<q[Len(dir) + 1]>> \o readdirFrom(dir, i + 1, seen \cup {q[Len(dir) + 1]})
             ELSE readdirFrom(dir, i + 1, seen)

readdirSync(dir) == readdirFrom(dir, 1, {})

\* The content of the file at a path.
contentOf(p) ==
  LET i == CHOOSE i \in CandidateIdx : Candidates[i].path = p
  IN  tree[i]

\* The path as the string the code builds.
pathString(p) == join(p, <<"/">>)

ignoreList ==
  IF entryPoint = "keyFormat" THEN ignoreList_keyFormat ELSE ignoreList_formatChecker

\* ------------------------------------------------------------ get-files.js

\* getFiles: every entry that is a directory is descended into, and every
\* entry whose path ends in the extension and whose name is not ignored is
\* collected.
RECURSIVE getFiles(_), getFilesOver(_, _)
getFilesOver(dir, entries) ==
  IF entries = <<>> THEN <<>>
  ELSE LET entry == Head(entries)
           filePath == Append(dir, entry)
       IN  (IF isDirectory(filePath) THEN getFiles(filePath) ELSE <<>>)
           \o (IF endsWith(pathString(filePath), fileExtension) /\ entry \notin ignoreList
                 THEN <<filePath>> ELSE <<>>)
           \o getFilesOver(dir, Tail(entries))

getFiles(dir) == getFilesOver(dir, readdirSync(dir))

\* getLanguageCodes: the entries of LOCALES_DIR that are not ignored, or
\* none when LOCALES_DIR does not exist (and then process.exitCode = 1).
getLanguageCodes ==
  IF ~rootExists THEN <<>>
  ELSE SelectSeq(readdirSync(LOCALES_DIR), LAMBDA folder : folder \notin ignoreList)

\* process.exitCode after a call of getLanguageCodes.
exitCodeAfterGetLanguageCodes(code) == IF ~rootExists THEN 1 ELSE code

\* ----------------------------------------------------------------- main.js

A_k == <<"-","k">>
A_f == <<"-","f">>
A_v == <<"-","v">>
A_h == <<"-","h">>
A_l == <<"-","l">>
A_keys == <<"-","-","k","e","y","s">>
A_filenames == <<"-","-","f","i","l","e","n","a","m","e","s">>
A_verbose == <<"-","-","v","e","r","b","o","s","e">>
A_help == <<"-","-","h","e","l","p">>
A_list == <<"-","-","l","i","s","t">>
A_bogus == <<"-","-","b","o","g","u","s">>

startsWithDash(arg) == Len(arg) > 0 /\ arg[1] = "-"

NoOptions == [checkKeys |-> FALSE, checkFileNames |-> FALSE, verbose |-> FALSE, languages |-> <<>>]

\* What a function of main.js did: returned, ended the process with a
\* status (process.exit), or threw.
Returned(o, code) == [kind |-> "return", options |-> o, exitCode |-> code, status |-> 0]
Exited(o, code, st) == [kind |-> "exit", options |-> o, exitCode |-> code, status |-> st]
Threw(o, code) == [kind |-> "throw", options |-> o, exitCode |-> code, status |-> 0]

\* The loop of parseArgs over the language arguments, with the final
\* default to every language code.
RECURSIVE parseLanguages(_, _, _, _)
parseLanguages(languageArgs, validLanguages, o, code) ==
  IF languageArgs = <<>>
    THEN IF o.languages = <<>>
           THEN Returned([o EXCEPT !.languages = getLanguageCodes],
                         exitCodeAfterGetLanguageCodes(code))
           ELSE Returned(o, code)
  ELSE LET language == Head(languageArgs)
       IN  IF ~ \E i \in 1..Len(validLanguages) : validLanguages[i] = language
             THEN IF entryPoint = "keyFormat"
                    \* console.error; listLanguages(); process.exit(1)
                    THEN Exited(o, exitCodeAfterGetLanguageCodes(code), 1)
                    \* core.setFailed(...); process.exit()
                    ELSE Exited(o, 1, 1)
             ELSE parseLanguages(Tail(languageArgs), validLanguages,
                                 [o EXCEPT !.languages = Append(@, language)], code)

\* The switch of parseArgs of locales-key-format/main.js over the options.
RECURSIVE parseOptions_keyFormat(_, _)
parseOptions_keyFormat(optionArgs, o) ==
  IF optionArgs = <<>> THEN Returned(o, 0)
  ELSE LET arg == Head(optionArgs)
       IN  CASE arg \in {A_h, A_help} -> Exited(o, 0, 0)
             [] arg \in {A_k, A_keys} ->
                  parseOptions_keyFormat(Tail(optionArgs), [o EXCEPT !.checkKeys = TRUE])
             [] arg \in {A_f, A_filenames} ->
                  parseOptions_keyFormat(Tail(optionArgs), [o EXCEPT !.checkFileNames = TRUE])
             [] arg \in {A_v, A_verbose} ->
                  parseOptions_keyFormat(Tail(optionArgs), [o EXCEPT !.verbose = TRUE])
             \* listLanguages(); process.exit(0)
             [] arg \in {A_l, A_list} -> Exited(o, exitCodeAfterGetLanguageCodes(0), 0)
             [] OTHER -> Exited(o, 0, 1)

\* The switch of parseArgs of locales-format-checker/main.js: an unknown
\* option sets the failure and then calls showHelpText, which that module
\* neither imports nor defines, so the call throws a ReferenceError.
RECURSIVE parseOptions_formatChecker(_, _)
parseOptions_formatChecker(optionArgs, o) ==
  IF optionArgs = <<>> THEN Returned(o, 0)
  ELSE LET arg == Head(optionArgs)
       IN  CASE arg \in {A_k, A_keys} ->
                  parseOptions_formatChecker(Tail(optionArgs), [o EXCEPT !.checkKeys = TRUE])
             [] arg \in {A_f, A_filenames} ->
                  parseOptions_formatChecker(Tail(optionArgs), [o EXCEPT !.checkFileNames = TRUE])
             [] arg \in {A_v, A_verbose} ->
                  parseOptions_formatChecker(Tail(optionArgs), [o EXCEPT !.verbose = TRUE])
             [] OTHER -> Threw(o, 1)

\* parseArgs that passes over a language code it does not know.
parseArgs_skipInvalidLanguage(argv) ==
  LET optionArgs == SelectSeq(argv, startsWithDash)
      valid == getLanguageCodes
      languageArgs == SelectSeq(argv, LAMBDA arg :
                        /\ ~startsWithDash(arg)
                        /\ \E i \in 1..Len(valid) : valid[i] = arg)
      opts == IF entryPoint = "keyFormat"
                THEN parseOptions_keyFormat(optionArgs, NoOptions)
                ELSE parseOptions_formatChecker(optionArgs, NoOptions)
  IN  IF opts.kind # "return" THEN opts
      ELSE parseLanguages(languageArgs, valid, opts.options,
                          exitCodeAfterGetLanguageCodes(opts.exitCode))

\* parseArgs of either entry point.
parseArgs(argv) ==
  LET optionArgs == SelectSeq(argv, startsWithDash)
      languageArgs == SelectSeq(argv, LAMBDA arg : ~startsWithDash(arg))
      opts == IF entryPoint = "keyFormat"
                THEN parseOptions_keyFormat(optionArgs, NoOptions)
                ELSE parseOptions_formatChecker(optionArgs, NoOptions)
  IN  IF opts.kind # "return" THEN opts
      ELSE parseLanguages(languageArgs, getLanguageCodes, opts.options,
                          exitCodeAfterGetLanguageCodes(opts.exitCode))

\* Object.keys(JSON.parse(fileContent)) for the text of an object: a key
\* written twice is one property, at the place of its first occurrence; the
\* integer keys come first, in ascending order, then the other keys in the
\* order of the text.
Digits == <<"0","1","2","3","4","5","6","7","8","9">>
isDigit(c) == \E i \in 1..Len(Digits) : Digits[i] = c
digitValue(c) == (CHOOSE i \in 1..Len(Digits) : Digits[i] = c) - 1

RECURSIVE numericValue(_)
numericValue(k) ==
  IF k = <<>> THEN 0
  ELSE numericValue(SubSeq(k, 1, Len(k) - 1)) * 10 + digitValue(k[Len(k)])

isIntegerKey(k) ==
  /\ k # <<>>
  /\ \A i \in 1..Len(k) : isDigit(k[i])
  /\ Len(k) > 1 => k[1] # "0"

RECURSIVE firstOccurrences(_, _)
firstOccurrences(ks, seen) ==
  IF ks = <<>> THEN <<>>
  ELSE IF Head(ks) \in seen THEN firstOccurrences(Tail(ks), seen)
  ELSE <<Head(ks)>> \o firstOccurrences(Tail(ks), seen \cup {Head(ks)})

RECURSIVE ascending(_)
ascending(ks) ==
  IF ks = <<>> THEN <<>>
  ELSE LET m == CHOOSE i \in 1..Len(ks) :
                  \A j \in 1..Len(ks) : numericValue(ks[i]) <= numericValue(ks[j])
       IN  <<ks[m]>> \o ascending(SubSeq(ks, 1, m - 1) \o SubSeq(ks, m + 1, Len(ks)))

objectKeys(fileKeys) ==
  LET properties == firstOccurrences(fileKeys, {})
  IN  ascending(SelectSeq(properties, isIntegerKey))
      \o SelectSeq(properties, LAMBDA k : ~isIntegerKey(k))

\* Format checks: no subject, and a result not computed yet.
NoSubject == [kind |-> "none"]
Pending == [pending |-> TRUE]

\* An object of the code as the sequence of its [path, entries] properties
\* in insertion order; { ...a, ...b } keeps a's order, replaces the value of
\* a property b also has, and appends b's new properties.
RECURSIVE objectSpread(_, _)
objectSpread(a, b) ==
  IF b = <<>> THEN a
  ELSE LET e == Head(b)
           merged == IF \E i \in 1..Len(a) : a[i].path = e.path
                       THEN [i \in 1..Len(a) |-> IF a[i].path = e.path THEN e ELSE a[i]]
                       ELSE Append(a, e)
       IN  objectSpread(merged, Tail(b))

\* checkForIncorrectKeys that skips a file that does not parse, as it skips
\* a file that does not exist.
checkForIncorrectKeys_skipMalformed(filePath) ==
  LET content == contentOf(filePath)
  IN  IF content.kind = "malformed"
        THEN [kind |-> "return", status |-> 0, value |-> <<>>]
        ELSE LET keys == objectKeys(content.keys)
                 analysed == [i \in 1..Len(keys) |-> analyzeKey(keys[i], i - 1)]
                 entries == SelectSeq(analysed, LAMBDA e : e # Null)
             IN  [kind |-> "return", status |-> 0,
                  value |-> IF Len(entries) > 0
                              THEN <<[path |-> filePath, entries |-> entries]>>
                              ELSE <<>>]

\* checkForIncorrectKeys: a file that does not parse ends the process
\* with status 1 (the catch block); otherwise the findings of its keys are
\* returned as the object { [filePath]: entries }, or {} when there are none.
checkForIncorrectKeys(filePath) ==
  LET content == contentOf(filePath)
  IN  IF content.kind = "malformed"
        THEN [kind |-> "exit", status |-> 1, value |-> <<>>]
        ELSE LET keys == objectKeys(content.keys)
                 analysed == [i \in 1..Len(keys) |-> analyzeKey(keys[i], i - 1)]
                 entries == SelectSeq(analysed, LAMBDA e : e # Null)
             IN  [kind |-> "return", status |-> 0,
                  value |-> IF Len(entries) > 0
                              THEN <<[path |-> filePath, entries |-> entries]>>
                              ELSE <<>>]

Event(ev, path) == [ev |-> ev, path |-> path]

\* The position of main after each of its four conditional blocks.
afterParse == IF options.checkKeys THEN "checkKeys" ELSE "checkFileNames"
afterCheckKeys == IF options.checkFileNames THEN "checkFileNames" ELSE "displayKeys"
afterCheckFileNames == IF options.checkKeys THEN "displayKeys" ELSE "displayFileNames"
afterDisplayKeys == IF options.checkFileNames THEN "displayFileNames" ELSE "end"

\* ----------------------------------------------------------------- actions

\* const options = await parseArgs(args)
ParseArgs ==
  /\ pc = "start"
  /\ LET r == parseArgs(args)
     IN  /\ options' = r.options
         /\ CASE r.kind = "exit" ->
                   pc' = "exited" /\ status' = r.status /\ exitCode' = r.exitCode
              \* only the format checker throws here, inside main's try:
              \* catch (error) { core.setFailed(error.message) }
              [] r.kind = "throw" ->
                   pc' = "end" /\ status' = status /\ exitCode' = 1
              [] r.kind = "return" ->
                   pc' = "parsed" /\ status' = status /\ exitCode' = r.exitCode
  /\ UNCHANGED <<entryPoint, args, rootExists, tree, keyOutput, fileNameOutput,
                 langs, files, events, report, formatVars>>

\* if (!options.checkKeys && !options.checkFileNames): the key-format entry
\* exits with 0; the format checker sets the failure, and its call of the
\* undefined showHelpText throws into main's catch.
NoOptionsProvided ==
  /\ pc = "parsed"
  /\ ~options.checkKeys /\ ~options.checkFileNames
  /\ IF entryPoint = "keyFormat"
       THEN pc' = "exited" /\ status' = 0 /\ exitCode' = exitCode
       ELSE pc' = "end" /\ status' = status /\ exitCode' = 1
  /\ UNCHANGED <<entryPoint, args, rootExists, tree, options, keyOutput,
                 fileNameOutput, langs, files, events, report, formatVars>>

\* The run goes on to the first enabled check.
OptionsProvided ==
  /\ pc = "parsed"
  /\ options.checkKeys \/ options.checkFileNames
  /\ pc' = afterParse
  /\ UNCHANGED <<entryPoint, args, rootExists, tree, options, exitCode, status,
                 keyOutput, fileNameOutput, langs, files, events, report, formatVars>>

\* keyOutput = await checkLocaleKeys(options): the loop starts.
BeginCheckKeys ==
  /\ pc = "checkKeys"
  /\ pc' = "keysLoop"
  /\ langs' = options.languages
  /\ files' = <<>>
  /\ keyOutput' = <<>>
  /\ UNCHANGED <<entryPoint, args, rootExists, tree, options, exitCode, status,
                 fileNameOutput, events, report, formatVars>>

\* readdirSync(dir) throws ENOTDIR when dir is not a directory.
readdirSyncThrows(dir) == ~isDirectory(dir)

\* for (const languageCode of options.languages): files = getFiles(path).
\* When getFiles throws, the promise of the check is rejected and the await
\* in main throws: locales-key-format/main.js does not catch it and the
\* process ends with status 1; locales-format-checker/main.js catches it,
\* calls core.setFailed and returns.
KeysNextLanguage ==
  /\ pc = "keysLoop"
  /\ files = <<>> /\ langs # <<>>
  /\ LET path == Append(LOCALES_DIR, Head(langs))
     IN  /\ events' = Append(events, Event("getFiles", path))
         /\ IF readdirSyncThrows(path)
              THEN /\ IF entryPoint = "keyFormat"
                        THEN pc' = "exited" /\ status' = 1 /\ exitCode' = exitCode
                        ELSE pc' = "end" /\ status' = status /\ exitCode' = 1
                   /\ UNCHANGED <<files, langs>>
              ELSE /\ files' = getFiles(path)
                   /\ langs' = Tail(langs)
                   /\ UNCHANGED <<pc, exitCode, status>>
  /\ UNCHANGED <<entryPoint, args, rootExists, tree, options,
                 keyOutput, fileNameOutput, report, formatVars>>

\* checkForIncorrectKeys(filePath, options) on the next file: a file that
\* does not parse is reported and ends the process.
KeysCheckFile ==
  /\ pc = "keysLoop"
  /\ files # <<>>
  /\ LET filePath == Head(files)
         fileIncorrectKeys == checkForIncorrectKeys(filePath)
     IN  IF fileIncorrectKeys.kind = "exit"
           THEN /\ events' = events \o <<Event("checkKeys", filePath),
                                          Event("parseError", filePath)>>
                /\ pc' = "exited"
                /\ status' = fileIncorrectKeys.status
                /\ UNCHANGED <<keyOutput, files>>
           ELSE /\ events' = Append(events, Event("checkKeys", filePath))
                /\ keyOutput' = objectSpread(keyOutput, fileIncorrectKeys.value)
                /\ files' = Tail(files)
                /\ UNCHANGED <<pc, status>>
  /\ UNCHANGED <<entryPoint, args, rootExists, tree, options, exitCode,
                 fileNameOutput, langs, report, formatVars>>

\* resolve(incorrectKeys)
EndCheckKeys ==
  /\ pc = "keysLoop"
  /\ files = <<>> /\ langs = <<>>
  /\ pc' = afterCheckKeys
  /\ UNCHANGED <<entryPoint, args, rootExists, tree, options, exitCode, status,
                 keyOutput, fileNameOutput, langs, files, events, report, formatVars>>

\* if (options.checkFileNames): in locales-key-format/main.js the line
\* console.log("#ffa500")("Checking file name format...") calls the
\* undefined result of console.log; the TypeError rejects main(), which
\* nothing catches, and the process ends with status 1.
BeginCheckFileNames ==
  /\ pc = "checkFileNames"
  /\ IF entryPoint = "keyFormat"
       THEN /\ pc' = "exited"
            /\ status' = 1
            /\ UNCHANGED <<langs, files, fileNameOutput>>
       ELSE /\ pc' = "namesLoop"
            /\ langs' = options.languages
            /\ files' = <<>>
            /\ fileNameOutput' = <<>>
            /\ UNCHANGED status
  /\ UNCHANGED <<entryPoint, args, rootExists, tree, options, exitCode,
                 keyOutput, events, report, formatVars>>

\* for (const languageCode of options.languages): files = getFiles(path),
\* as in checkLocaleKeys.
NamesNextLanguage ==
  /\ pc = "namesLoop"
  /\ files = <<>> /\ langs # <<>>
  /\ LET path == Append(LOCALES_DIR, Head(langs))
     IN  /\ events' = Append(events, Event("getFiles", path))
         /\ IF readdirSyncThrows(path)
              THEN /\ IF entryPoint = "keyFormat"
                        THEN pc' = "exited" /\ status' = 1 /\ exitCode' = exitCode
                        ELSE pc' = "end" /\ status' = status /\ exitCode' = 1
                   /\ UNCHANGED <<files, langs>>
              ELSE /\ files' = getFiles(path)
                   /\ langs' = Tail(langs)
                   /\ UNCHANGED <<pc, exitCode, status>>
  /\ UNCHANGED <<entryPoint, args, rootExists, tree, options,
                 keyOutput, fileNameOutput, report, formatVars>>

\* checkForIncorrectFileName(filePath, options) on the next file.
NamesCheckFile ==
  /\ pc = "namesLoop"
  /\ files # <<>>
  /\ LET filePath == Head(files)
         fileNameResult == checkForIncorrectFileName(filePath)
     IN  /\ events' = Append(events, Event("checkFileName", filePath))
         /\ fileNameOutput' = IF fileNameResult # Null
                                THEN Append(fileNameOutput, fileNameResult)
                                ELSE fileNameOutput
  /\ files' = Tail(files)
  /\ UNCHANGED <<entryPoint, args, rootExists, tree, pc, options, exitCode, status,
                 keyOutput, langs, report, formatVars>>

\* resolve(incorrectFileNames)
EndCheckFileNames ==
  /\ pc = "namesLoop"
  /\ files = <<>> /\ langs = <<>>
  /\ pc' = afterCheckFileNames
  /\ UNCHANGED <<entryPoint, args, rootExists, tree, options, exitCode, status,
                 keyOutput, fileNameOutput, langs, files, events, report, formatVars>>

\* The number of files with findings from which displayKeyResults reports
\* a failure: Object.keys(result).length > 1 in locales-key-format/main.js,
\* > 0 in locales-format-checker/main.js.
keyFailureThreshold == IF entryPoint = "keyFormat" THEN 1 ELSE 0

\* String.prototype.includes
includes(s, searchString) ==
  \E i \in 0..(Len(s) - Len(searchString)) :
    SubSeq(s, i + 1, i + Len(searchString)) = searchString

\* reduce((sum, val) => sum + val.length, 0) over the entries of a result.
RECURSIVE sumOfLengths(_)
sumOfLengths(result) ==
  IF result = <<>> THEN 0
  ELSE Len(Head(result).entries) + sumOfLengths(Tail(result))

\* `/${languageCode}/`
languageSegment(languageCode) == <<"/">> \o languageCode \o <<"/">>

\* The counts displayKeyResults prints: for each language the findings of
\* the entries whose path includes `/${languageCode}/`, then the total.
keyCounts(result) ==
  [ kind |-> "keys",
    perLanguage |->
      [ i \in 1..Len(options.languages) |->
          LET languageCode == options.languages[i]
              incorrectKeysForLang ==
                SelectSeq(result, LAMBDA e :
                  includes(pathString(e.path), languageSegment(languageCode)))
          IN  [languageCode |-> languageCode,
               count |-> sumOfLengths(incorrectKeysForLang)] ],
    total |-> sumOfLengths(result) ]

\* The counts displayFileNameResults prints: for each language the findings
\* whose incorrectFileName includes `/${languageCode}/`, then result.length.
fileNameCounts(result) ==
  [ kind |-> "fileNames",
    perLanguage |->
      [ i \in 1..Len(options.languages) |->
          LET languageCode == options.languages[i]
              incorrectFileNamesForLang ==
                SelectSeq(result, LAMBDA fileName :
                  includes(fileName.incorrectFileName, languageSegment(languageCode)))
          IN  [languageCode |-> languageCode,
               count |-> Len(incorrectFileNamesForLang)] ],
    total |-> Len(result) ]

\* displayKeyResults(keyOutput, options)
DisplayKeyResults ==
  /\ pc = "displayKeys"
  /\ events' = Append(events, Event("keyResult", <<>>))
  /\ IF Len(keyOutput) > keyFailureThreshold
       THEN exitCode' = 1 /\ report' = Append(report, keyCounts(keyOutput))
       ELSE exitCode' = 0 /\ report' = report
  /\ pc' = afterDisplayKeys
  /\ UNCHANGED <<entryPoint, args, rootExists, tree, options, status, keyOutput,
                 fileNameOutput, langs, files, formatVars>>

\* displayFileNameResults(fileNameOutput, options)
DisplayFileNameResults ==
  /\ pc = "displayFileNames"
  /\ events' = Append(events, Event("fileNameResult", <<>>))
  /\ IF Len(fileNameOutput) > 0
       THEN exitCode' = 1 /\ report' = Append(report, fileNameCounts(fileNameOutput))
       ELSE exitCode' = 0 /\ report' = report
  /\ pc' = "end"
  /\ UNCHANGED <<entryPoint, args, rootExists, tree, options, status, keyOutput,
                 fileNameOutput, langs, files, formatVars>>

\* main returns and the process ends with process.exitCode.
ProcessEnds ==
  /\ pc = "end"
  /\ pc' = "exited"
  /\ status' = exitCode
  /\ UNCHANGED <<entryPoint, args, rootExists, tree, options, exitCode, keyOutput,
                 fileNameOutput, langs, files, events, report, formatVars>>

\* ---------------------------------------------------------- specification

ArgTokens == {A_k, A_f, A_v, A_h, A_l, A_bogus, N_en, N_zz}

ArgLists == UNION { [1..n -> ArgTokens] : n \in 0..MaxArgs }

Init ==
  /\ entryPoint \in {"keyFormat", "formatChecker"}
  /\ args \in ArgLists
  /\ rootExists \in BOOLEAN
  /\ tree \in Trees
  /\ rootExists = FALSE => tree = EmptyTree
  /\ pc = "start"
  /\ options = NoOptions
  /\ exitCode = 0
  /\ status = 0
  /\ keyOutput = <<>>
  /\ fileNameOutput = <<>>
  /\ langs = <<>>
  /\ files = <<>>
  /\ events = <<>>
  /\ report = <<>>
  /\ subject = NoSubject
  /\ finding = Pending
  /\ refinding = Pending

Next ==
  \/ ParseArgs
  \/ NoOptionsProvided
  \/ OptionsProvided
  \/ BeginCheckKeys
  \/ KeysNextLanguage
  \/ KeysCheckFile
  \/ EndCheckKeys
  \/ BeginCheckFileNames
  \/ NamesNextLanguage
  \/ NamesCheckFile
  \/ EndCheckFileNames
  \/ DisplayKeyResults
  \/ DisplayFileNameResults
  \/ ProcessEnds

Spec == Init /\ [][Next]_vars

\* ------------------------------------------- the analysers on their own

\* The segments keys and file-name stems are built from.
Segments ==
  { <<>>, <<"a">>, <<"A","b">>, <<"a","B">>, <<"a","-","b">>,
    <<"A","c","e">>, <<"t","r","a","i","n","e","r">>, <<"T","r","a","i","n","e","r">>,
    <<"f","o","o">>, <<"m","a","l","e">>, <<"o","n","e">> }

\* Every key of one to MaxSegments segments joined by underscores.
Keys == { join(ss, <<"_">>) : ss \in UNION { [1..n -> Segments] : n \in 1..MaxSegments } }

\* The file names: every key as a stem, and the two names of the spec's example.
FileNames == { k \o S_json : k \in Keys } \cup {N_My_Weird_File_json, N_my_weird_file_json}

\* The directories a checked file may lie in.
Directories == { <<N_dot, N_en>>, <<N_dot, N_en, <<"S","u","b","_","D","i","r">>>> }

\* The 0-based positions a key may have in its file.
KeyIndexes == {0, 1}

KeySubject(key, index) == [kind |-> "key", key |-> key, index |-> index]
FileSubject(filePath) == [kind |-> "file", filePath |-> filePath]

InitFormat ==
  /\ \/ \E key \in Keys, index \in KeyIndexes : subject = KeySubject(key, index)
     \/ \E dir \in Directories, name \in FileNames : subject = FileSubject(Append(dir, name))
  /\ finding = Pending
  /\ refinding = Pending
  /\ entryPoint = "keyFormat"
  /\ args = <<>>
  /\ rootExists = TRUE
  /\ tree = EmptyTree
  /\ pc = "format"
  /\ options = NoOptions
  /\ exitCode = 0
  /\ status = 0
  /\ keyOutput = <<>>
  /\ fileNameOutput = <<>>
  /\ langs = <<>>
  /\ files = <<>>
  /\ events = <<>>
  /\ report = <<>>

\* analyzeKey(key, index, options)
AnalyzeKey ==
  /\ pc = "format" /\ subject.kind = "key" /\ finding = Pending
  /\ finding' = analyzeKey(subject.key, subject.index)
  /\ UNCHANGED <<runVars, subject, refinding>>

\* analyzeKey on the corrected key of a finding, at the same position.
ReanalyzeKey ==
  /\ pc = "format" /\ subject.kind = "key"
  /\ finding # Pending /\ finding # Null /\ refinding = Pending
  /\ refinding' = analyzeKey(finding.correctedKey, subject.index)
  /\ UNCHANGED <<runVars, subject, finding>>

\* checkForIncorrectFileName(filePath, options)
CheckFileName ==
  /\ pc = "format" /\ subject.kind = "file" /\ finding = Pending
  /\ finding' = checkForIncorrectFileName(subject.filePath)
  /\ UNCHANGED <<runVars, subject, refinding>>

\* checkForIncorrectFileName on the file renamed to the corrected name.
RecheckFileName ==
  /\ pc = "format" /\ subject.kind = "file"
  /\ finding # Pending /\ finding # Null /\ refinding = Pending
  /\ refinding' = checkForIncorrectFileName(
                    Append(SubSeq(subject.filePath, 1, Len(subject.filePath) - 1),
                           finding.correctedFileName))
  /\ UNCHANGED <<runVars, subject, finding>>

NextFormat ==
  \/ AnalyzeKey
  \/ ReanalyzeKey
  \/ CheckFileName
  \/ RecheckFileName

SpecFormat == InitFormat /\ [][NextFormat]_vars

\* ------------------------------------------------------------------ claims

K_Ace_Trainer_male ==
  <<"A","c","e","_","T","r","a","i","n","e","r","_","m","a","l","e">>
K_aceTrainer_male ==
  <<"a","c","e","T","r","a","i","n","e","r","_","m","a","l","e">>
K_trainer_foo == <<"t","r","a","i","n","e","r","_","f","o","o">>
K_trainerFoo == <<"t","r","a","i","n","e","r","F","o","o">>

\* The subject is a key and analyzeKey has run on it.
KeyAnalysed == subject.kind = "key" /\ finding # Pending
\* The subject is a file path and checkForIncorrectFileName has run on it.
FileAnalysed == subject.kind = "file" /\ finding # Pending

\* The key analyzeKey holds to be the correct one.
correctedKeyOfFinding == IF finding = Null THEN subject.key ELSE finding.correctedKey

\* The later parts of a key that are recognized suffixes.
recognizedParts(key) ==
  LET parts == split(key, "_")
  IN  { i \in 2..Len(parts) : (<<"_">> \o parts[i]) \in i18nextKeyExtensions }

\* C3: a key that starts with a letter and whose last underscore-delimited
\* part is its one recognized suffix is corrected to the part before the suffix in camelCase followed
\* by the suffix verbatim; "Ace_Trainer_male" is reported with correctedKey
\* "aceTrainer_male".
C3_SuffixKeptBaseCamelCased ==
  KeyAnalysed =>
    LET parts == split(subject.key, "_")
        ext == <<"_">> \o parts[Len(parts)]
    IN  /\ (parts[1] # <<>> /\ recognizedParts(subject.key) = {Len(parts)}) =>
             correctedKeyOfFinding =
               toCamelCase(SubSeq(subject.key, 1, Len(subject.key) - Len(ext))) \o ext
        /\ subject.key = K_Ace_Trainer_male =>
             finding # Null /\ finding.correctedKey = K_aceTrainer_male

\* C4: in the corrected key of a key with underscores every later segment
\* that is no recognized suffix is appended in PascalCase without an
\* underscore, so that an underscore stands only right before a recognized
\* suffix and there are as many underscores as recognized segments;
\* "trainer_foo" is reported with correctedKey "trainerFoo".
C4_UnrecognizedSegmentsPascalCased ==
  (KeyAnalysed /\ includesChar(subject.key, "_")) =>
    LET c == correctedKeyOfFinding
        parts == split(subject.key, "_")
    IN  /\ \A i \in 1..Len(c) :
             c[i] = "_" => \E ext \in i18nextKeyExtensions :
                             /\ i + Len(ext) - 1 <= Len(c)
                             /\ SubSeq(c, i, i + Len(ext) - 1) = ext
        /\ Cardinality({ i \in 1..Len(c) : c[i] = "_" })
             = Cardinality(recognizedParts(subject.key))
        /\ c = parts[1] \o join([i \in 1..(Len(parts) - 1) |->
                                   IF (i + 1) \in recognizedParts(subject.key)
                                     THEN <<"_">> \o parts[i + 1]
                                     ELSE toPascalCase(parts[i + 1])], <<>>)
        /\ subject.key = K_trainer_foo =>
             finding # Null /\ finding.correctedKey = K_trainerFoo

\* C4 witness: "trainer_foo" has been analysed and reported as "trainerFoo".
C4_Witness ==
  /\ KeyAnalysed /\ subject.key = K_trainer_foo
  /\ finding # Null /\ finding.correctedKey = K_trainerFoo

\* C5: a finding is emitted only when the corrected form differs from the
\* observed one, and the corrected form of a finding yields no finding when
\* it is analysed again, for keys that start with a letter and for file
\* names.
C5_CorrectionIdempotent ==
  /\ (KeyAnalysed /\ finding # Null) => finding.correctedKey # finding.incorrectKey
  /\ (FileAnalysed /\ finding # Null) =>
       finding.correctedFileName # finding.incorrectFileName
  /\ (refinding # Pending /\ subject.kind = "key" /\ subject.key[1] # "_") =>
       refinding = Null
  /\ (refinding # Pending /\ subject.kind = "file") => refinding = Null

\* C10: checkForIncorrectFileName reports a file exactly when its base name
\* differs from the kebab-case form of the base name, with the base name and
\* that form in the finding; the corrected name ends in .json;
\* "My_Weird_File.json" is reported as "my-weird-file.json" and
\* "my-weird-file.json" is not reported.
C10_FileNameAgainstKebabCase ==
  FileAnalysed =>
    LET base == subject.filePath[Len(subject.filePath)]
    IN  /\ (finding = Null) <=> (toKebabCase(base) = base)
        /\ finding # Null =>
             /\ finding.incorrectFileName = base
             /\ finding.correctedFileName = toKebabCase(base)
             /\ endsWith(finding.correctedFileName, fileExtension)
        /\ base = N_My_Weird_File_json =>
             finding # Null /\ finding.correctedFileName = N_my_weird_file_json
        /\ base = N_my_weird_file_json => finding = Null

\* C10 witness: "My_Weird_File.json" in a directory that is not kebab-case
\* has been checked and reported as "my-weird-file.json".
C10_Witness ==
  /\ FileAnalysed
  /\ Len(subject.filePath) = 4
  /\ subject.filePath[4] = N_My_Weird_File_json
  /\ finding # Null /\ finding.correctedFileName = N_my_weird_file_json

\* ------------------------------------------------------ claims on the run

Range(f) == { f[i] : i \in 1..Len(f) }

checkFlags == {A_k, A_keys, A_f, A_filenames, A_v, A_verbose}
helpFlags == {A_h, A_help, A_l, A_list}
\* The flags the switch of parseArgs has a case for.
knownFlags == IF entryPoint = "keyFormat" THEN checkFlags \cup helpFlags ELSE checkFlags

optionArgsOf(argv) == SelectSeq(argv, startsWithDash)
languageArgsOf(argv) == SelectSeq(argv, LAMBDA arg : ~startsWithDash(arg))

HasUnknownFlag == \E a \in Range(optionArgsOf(args)) : a \notin knownFlags
HasInvalidLanguage == \E a \in Range(languageArgsOf(args)) : a \notin Range(getLanguageCodes)

\* Valid arguments that enable a check: only -k, -f, -v and discovered
\* language codes, with -k or -f among them.
ValidCheckArgs ==
  /\ Range(optionArgsOf(args)) \subseteq checkFlags
  /\ Range(optionArgsOf(args)) \cap {A_k, A_keys, A_f, A_filenames} # {}
  /\ ~HasInvalidLanguage

Happened(ev) == \E i \in 1..Len(events) : events[i].ev = ev

\* The run has ended after every enabled check was made and reported.
ScanCompleted ==
  /\ pc = "exited"
  /\ options.checkKeys \/ options.checkFileNames
  /\ options.checkKeys => Happened("keyResult")
  /\ options.checkFileNames => Happened("fileNameResult")

\* C1: a run that completes its scan with at least one finding, a key
\* finding or a file-name finding, ends with a non-zero status.
C1_AnyFindingFails ==
  (ScanCompleted /\ (Len(keyOutput) > 0 \/ Len(fileNameOutput) > 0)) => status # 0

\* No present file has a key or a name that deviates, and every file parses.
CleanTree ==
  \A i \in CandidateIdx :
    tree[i] # Absent =>
      /\ tree[i] = Clean
      /\ LET name == Candidates[i].path[Len(Candidates[i].path)]
         IN  toKebabCase(name) = name

\* C2: a run with valid arguments that enable a check, over an existing
\* tree without any deviation, ends with status 0 and with empty findings.
C2_CleanTreeSucceeds ==
  (rootExists /\ ValidCheckArgs /\ CleanTree /\ pc = "exited") =>
    status = 0 /\ keyOutput = <<>> /\ fileNameOutput = <<>>

\* A path that has an ignored name below LOCALES_DIR: an ignored file, or a
\* file beneath an ignored directory.
IgnoredPath(p) == \E i \in 2..Len(p) : p[i] \in ignoreList

\* C6: no file with an ignored name and no file beneath an ignored
\* directory is returned by getFiles, is checked, or is in a finding.
C6_IgnoredNeverChecked ==
  /\ \A i \in 1..Len(files) : ~IgnoredPath(files[i])
  /\ \A i \in 1..Len(events) : ~IgnoredPath(events[i].path)
  /\ \A i \in 1..Len(keyOutput) : ~IgnoredPath(keyOutput[i].path)

\* C7: when the key check meets a file that is not valid JSON, the run
\* reports that file's path and has ended with status 1, and the report is
\* the last thing the run did: no later file is checked, no result shown.
C7_MalformedJsonAborts ==
  \A i \in 1..Len(events) :
    (events[i].ev = "checkKeys" /\ contentOf(events[i].path).kind = "malformed") =>
      /\ pc = "exited"
      /\ status = 1
      /\ Len(events) = i + 1
      /\ events[i + 1] = Event("parseError", events[i].path)

\* C7 witness: the run has ended on a malformed file while files of the
\* scan were still to be checked.
C7_Witness ==
  /\ pc = "exited"
  /\ Len(events) > 0 /\ events[Len(events)].ev = "parseError"
  /\ \/ Len(files) > 1
     \/ langs # <<>> /\ getFiles(Append(LOCALES_DIR, Head(langs))) # <<>>

\* The run has not gone past parseArgs: no file checked, no result shown.
AbortedInParseArgs == events = <<>> /\ pc \in {"start", "end", "exited"}

\* C8 as claimed: an argument list with an unknown flag or an unknown
\* language code ends the run in parseArgs with a non-zero status.
C8_BadArgsFail ==
  (HasUnknownFlag \/ HasInvalidLanguage) =>
    AbortedInParseArgs /\ (pc = "exited" => status # 0)

\* In locales-key-format/main.js, -h/--help or -l/--list comes before
\* every unknown flag.
HelpFirst ==
  /\ entryPoint = "keyFormat"
  /\ LET o == optionArgsOf(args)
     IN  \E i \in 1..Len(o) :
           /\ o[i] \in helpFlags
           /\ \A j \in 1..(i - 1) : o[j] \in knownFlags

\* C8: an argument list with an unknown flag or an unknown language code
\* ends the run in parseArgs, before any file is checked, with a non-zero
\* status unless a help or list flag of locales-key-format/main.js comes
\* before every unknown flag, and then with status 0.
C8_BadArgsAbort ==
  (HasUnknownFlag \/ HasInvalidLanguage) =>
    AbortedInParseArgs /\ (pc = "exited" => (status = 0 <=> HelpFirst))

\* C8 witness: a run over a tree with files has ended with status 1 on an
\* unknown language code given after -k.
C8_Witness ==
  /\ pc = "exited" /\ status = 1
  /\ HasInvalidLanguage /\ ~HasUnknownFlag
  /\ A_k \in Range(args)
  /\ tree # EmptyTree

\* C9: when LOCALES_DIR does not exist, a run with valid check flags makes
\* no check, shows no result and ends with a non-zero status.
C9_MissingRootAborts ==
  (~rootExists /\ ValidCheckArgs /\ pc = "exited") =>
    events = <<>> /\ status # 0

\* C11: every finding of the key report carries the line on which its key
\* stands in the file (the opening brace is line 1, the n-th key of the text
\* is on line n + 1), and the findings of one file are listed in strictly
\* increasing line order.
C11_LineIsFilePosition ==
  \A i \in 1..Len(keyOutput) :
    LET fileKeys == contentOf(keyOutput[i].path).keys
        entries == keyOutput[i].entries
    IN  /\ \A j \in 1..Len(entries) :
             /\ entries[j].line - 1 \in 1..Len(fileKeys)
             /\ fileKeys[entries[j].line - 1] = entries[j].incorrectKey
        /\ \A j \in 1..(Len(entries) - 1) : entries[j].line < entries[j + 1].line

\* The calls of getFiles made so far.
getFilesCalls == SelectSeq(events, LAMBDA e : e.ev = "getFiles")

\* C12: every language code of options.languages after parseArgs is the
\* name of a directory of LOCALES_DIR that is not on the ignore list, and
\* getFiles has only been called on directories.
C12_LanguageCodesAreDirectories ==
  /\ pc \notin {"start", "format"} =>
       \A i \in 1..Len(options.languages) :
         /\ options.languages[i] \notin ignoreList
         /\ isDirectory(Append(LOCALES_DIR, options.languages[i]))
  /\ \A i \in 1..Len(getFilesCalls) : isDirectory(getFilesCalls[i].path)

\* The key findings of the run in the files under a language's directory.
keyFindingsUnder(languageCode) ==
  sumOfLengths(SelectSeq(keyOutput, LAMBDA e :
    IsPrefix(Append(LOCALES_DIR, languageCode), e.path)))

\* The files under a language's directory whose name is a finding.
fileNameFindingsUnder(languageCode) ==
  Len(SelectSeq(getFiles(Append(LOCALES_DIR, languageCode)), LAMBDA filePath :
    checkForIncorrectFileName(filePath) # Null))

RECURSIVE sumOfCounts(_)
sumOfCounts(perLanguage) ==
  IF perLanguage = <<>> THEN 0
  ELSE Head(perLanguage).count + sumOfCounts(Tail(perLanguage))

\* C13: in every result report shown, the count printed for a language is
\* the number of findings in the files under that language's directory,
\* and for distinct selected languages the counts add up to the printed
\* total, for incorrect keys and for incorrect file names alike.
C13_CountsMatchFindings ==
  \A i \in 1..Len(report) :
    LET perLanguage == report[i].perLanguage
    IN  /\ \A j \in 1..Len(perLanguage) :
             perLanguage[j].count =
               IF report[i].kind = "keys"
                 THEN keyFindingsUnder(perLanguage[j].languageCode)
                 ELSE fileNameFindingsUnder(perLanguage[j].languageCode)
        /\ (\A j, k \in 1..Len(perLanguage) :
               j # k => perLanguage[j].languageCode # perLanguage[k].languageCode)
             => sumOfCounts(perLanguage) = report[i].total

\* The check events of the enabled checks.
enabledChecks ==
  (IF options.checkKeys THEN {"checkKeys"} ELSE {})
    \cup (IF options.checkFileNames THEN {"checkFileName"} ELSE {})

\* The place of a step in the order main gives them: key scan, file-name
\* scan, key report, file-name report.
stepRank(ev) ==
  CASE ev = "checkKeys" -> 1
    [] ev = "checkFileName" -> 2
    [] ev = "keyResult" -> 3
    [] ev = "fileNameResult" -> 4
    [] OTHER -> 0

\* No file of the tree is unreadable as JSON, so that nothing but findings
\* can come up during the scan.
OnlyFindings == \A i \in CandidateIdx : tree[i].kind # "malformed"

\* C14: a run with -k and/or -f and valid arguments, over an existing tree
\* in which only findings can come up, ends after every file of every
\* selected language was checked by every enabled check, whatever the
\* findings, and after the result of every enabled check was shown; the
\* steps come in the order key scan, file-name scan, key report, file-name
\* report.
C14_FindingsNeverAbort ==
  (pc = "exited" /\ rootExists /\ ValidCheckArgs /\ OnlyFindings) =>
    /\ \A languageCode \in Range(options.languages) :
         \A filePath \in Range(getFiles(Append(LOCALES_DIR, languageCode))) :
           \A check \in enabledChecks :
             \E i \in 1..Len(events) : events[i] = Event(check, filePath)
    /\ options.checkKeys => Happened("keyResult")
    /\ options.checkFileNames => Happened("fileNameResult")
    /\ \A i, j \in 1..Len(events) :
         (i < j /\ stepRank(events[i].ev) > 0 /\ stepRank(events[j].ev) > 0)
           => stepRank(events[i].ev) <= stepRank(events[j].ev)

\* C15: once process.exitCode is set to failure, no later step of the run
\* sets it back to success.
C15_FailureSticks == [][exitCode # 0 => exitCode' # 0]_vars

=============================================================================
